---------------------------- MODULE Spec2Model ----------------------------
(***************************************************************************)
(* A model of sheet_utils.py: the broadsheet extraction pipeline.          *)
(*                                                                         *)
(* Text is a sequence of one-character strings, so that strip(), lower()   *)
(* and title() are computed character by character.  A cell value is one   *)
(* of None, Str(text) or Num(h), h being the number in hundredths; an     *)
(* optional column index is None or Idx(n).                                *)
(* A worksheet is [title, rows]; rows[r] maps the columns that hold a cell *)
(* in row r to the cell's value; a cell that is absent reads as None.      *)
(***************************************************************************)
EXTENDS Integers, Sequences, FiniteSets, TLC

VARIABLES
    entry,              \* the function that was called from outside
    pc,                 \* position of the control flow
    sheets,             \* the worksheets of the workbook, as loaded
    idx,                \* position of nonempty_worksheets in workbook.sheetnames
    worksheet,          \* the worksheet being processed
    schema,             \* BroadSheetSchema under construction / in use
    col,                \* column the header scan is at
    previous_title,     \* get_broadsheet_schema: previous_title
    last_column_index,  \* get_broadsheet_schema: last_column_index
    row,                \* row the students() generator is at
    results,            \* the StudentResults yielded so far
    broadsheets_data,   \* extract_broadsheets_data: broadsheets_data
    err,                \* the exception that ended the run, or "none"
    score,              \* get_grade: its argument
    grade               \* get_grade: its return value

vars == <<entry, pc, sheets, idx, worksheet, schema, col, previous_title,
          last_column_index, row, results, broadsheets_data, err, score, grade>>

-----------------------------------------------------------------------------
(* Values *)

None == [t |-> "none"]
Str(s) == [t |-> "str", s |-> s]
Num(h) == [t |-> "num", h |-> h]
Idx(n) == [t |-> "idx", n |-> n]

\* Python truthiness of a cell value: None, "" and 0 are falsy.
Truthy(v) ==
    \/ v.t = "str" /\ Len(v.s) > 0
    \/ v.t = "num" /\ v.h # 0

Max(S) == CHOOSE m \in S : \A n \in S : n <= m

\* dict[k] = v
Put(d, k, v) == [x \in (DOMAIN d) \cup {k} |-> IF x = k THEN v ELSE d[x]]

-----------------------------------------------------------------------------
(* Text *)

UpperChars == <<"A", "B", "C", "D", "E", "F", "G", "H", "I", "J", "K", "L", "M",
                "N", "O", "P", "Q", "R", "S", "T", "U", "V", "W", "X", "Y", "Z">>
LowerChars == <<"a", "b", "c", "d", "e", "f", "g", "h", "i", "j", "k", "l", "m",
                "n", "o", "p", "q", "r", "s", "t", "u", "v", "w", "x", "y", "z">>

IsUpper(c) == \E i \in DOMAIN UpperChars : UpperChars[i] = c
IsLower(c) == \E i \in DOMAIN LowerChars : LowerChars[i] = c
IsCased(c) == IsUpper(c) \/ IsLower(c)
IsSpace(c) == c = " "

LowerChar(c) ==
    IF IsUpper(c)
    THEN LowerChars[CHOOSE i \in DOMAIN UpperChars : UpperChars[i] = c]
    ELSE c
UpperChar(c) ==
    IF IsLower(c)
    THEN UpperChars[CHOOSE i \in DOMAIN LowerChars : LowerChars[i] = c]
    ELSE c

\* str.lower()
Lower(s) == [i \in 1..Len(s) |-> LowerChar(s[i])]

\* str.strip()
RECURSIVE LStrip(_)
LStrip(s) == IF Len(s) > 0 /\ IsSpace(Head(s)) THEN LStrip(Tail(s)) ELSE s
RECURSIVE RStrip(_)
RStrip(s) ==
    IF Len(s) > 0 /\ IsSpace(s[Len(s)]) THEN RStrip(SubSeq(s, 1, Len(s) - 1)) ELSE s
Strip(s) == RStrip(LStrip(s))

\* str.capitalize() in the place of str.title()
Title_Capitalize(s) ==
    [i \in 1..Len(s) |-> IF i = 1 THEN UpperChar(s[i]) ELSE LowerChar(s[i])]

\* str.title(): a cased character is upper-cased when it follows an uncased
\* character (or starts the text) and lower-cased otherwise.
Title(s) ==
    [i \in 1..Len(s) |->
        IF i = 1 \/ ~IsCased(s[i - 1]) THEN UpperChar(s[i]) ELSE LowerChar(s[i])]

\* sub in s
Contains(s, sub) ==
    \E i \in 0..(Len(s) - Len(sub)) : SubSeq(s, i + 1, i + Len(sub)) = sub

H_Math == <<"M", "a", "t", "h">>
H_Science == <<"S", "c", "i", "e", "n", "c", "e">>
H_Mid_sp == <<" ", "M", "I", "D", " ">>
H_Mid == <<"M", "i", "d">>
H_Exam == <<"E", "x", "a", "m">>
H_Total == <<"T", "o", "t", "a", "l">>
H_Comment == <<"C", "o", "m", "m", "e", "n", "t">>
H_Name == <<"N", "a", "m", "e">>
N_john_doe == <<"j", "o", "h", "n", " ", "d", "o", "e">>
N_ada == <<" ", "a", "d", "a">>
T_Term1 == <<"T", "e", "r", "m", "1">>
T_term1_sp == <<" ", "t", "e", "r", "m", "1", " ">>
T_Term2 == <<"T", "e", "r", "m", "2">>
C_ok == <<"o", "k", " ">>
S_comment == <<"c", "o", "m", "m", "e", "n", "t">>
S_mid_term_score == <<"m", "i", "d", "_", "t", "e", "r", "m", "_", "s", "c", "o", "r", "e">>
S_exam_score == <<"e", "x", "a", "m", "_", "s", "c", "o", "r", "e">>
S_total_score == <<"t", "o", "t", "a", "l", "_", "s", "c", "o", "r", "e">>

EXTERNAL_TO_INTERNAL_MAPPING ==
    <<"m", "i", "d">>
        :> S_mid_term_score
    @@ <<"e", "x", "a", "m">>
        :> S_exam_score
    @@ <<"t", "o", "t", "a", "l">>
        :> S_total_score
    @@ <<"m", "i", "d", " ", "%">>
        :> <<"m", "i", "d", " ", "t", "e", "r", "m", " ", "%">>
    @@ <<"m", "i", "d", " ", "t", "o", "t", "a", "l">>
        :> <<"m", "i", "d", " ", "t", "e", "r", "m", " ", "t", "o", "t", "a", "l">>
    @@ <<"s", "i", "m", " ", "%">>
        :> <<"s", "u", "m", " ", "t", "o", "t", "a", "l", " ", "%">>
    @@ <<"s", "u", "m", " ", "%">>
        :> <<"s", "u", "m", " ", "t", "o", "t", "a", "l", " ", "%">>
    @@ <<"1", "s", "t", " ", "t", "e", "r", "m">>
        :> <<"1", "s", "t", " ", "t", "e", "r", "m", " ", "t", "o", "t", "a", "l">>
    @@ <<"2", "n", "d", " ", "t", "e", "r", "m">>
        :> <<"2", "n", "d", " ", "t", "e", "r", "m", " ", "t", "o", "t", "a", "l">>
    @@ <<"3", "r", "d", " ", "t", "e", "r", "m">>
        :> <<"3", "r", "d", " ", "t", "e", "r", "m", " ", "t", "o", "t", "a", "l">>
    @@ <<"c", "u", "m", "t", "o", "t", "a", "l">>
        :> <<"c", "u", "m", "u", "l", "a", "t", "i", "v", "e", " ", "(", "s", "e",
             "s", "s", "i", "o", "n", ")", " ", "t", "o", "t", "a", "l">>
    @@ <<"a", "v", ".", " ", "t", "o", "t", "a", "l">>
        :> <<"a", "v", "e", "r", "a", "g", "e", " ", "t", "o", "t", "a", "l">>
    @@ <<"a", "v", ".", " ", "%">>
        :> <<"a", "v", "e", "r", "a", "g", "e", " ", "%">>

\* _to_internal(val), val a str
_to_internal(val) ==
    LET v == Lower(Strip(val))
    IN  IF v \in DOMAIN EXTERNAL_TO_INTERNAL_MAPPING
        THEN EXTERNAL_TO_INTERNAL_MAPPING[v]
        ELSE v

-----------------------------------------------------------------------------
(* The worksheet collaborator (openpyxl), by the values it exposes *)

\* worksheet.cell(r, c).value
CellValue(ws, r, c) ==
    IF r \in 1..Len(ws.rows) /\ c \in DOMAIN ws.rows[r] THEN ws.rows[r][c] ELSE None

\* worksheet.max_row: the last row that holds a cell.  openpyxl starts the
\* maximum at 1, so a worksheet without cells has max_row 1, never 0.
max_row(ws) == IF Len(ws.rows) = 0 THEN 1 ELSE Len(ws.rows)

\* worksheet.max_column: the last column that holds a cell; 1 without cells.
max_column(ws) ==
    LET used == UNION {DOMAIN ws.rows[r] : r \in 1..Len(ws.rows)}
    IN  IF used = {} THEN 1 ELSE Max(used)

\* all(cell.value is None for cell in worksheet[r])
RowIsEmpty(ws, r) == \A c \in 1..max_column(ws) : CellValue(ws, r, c) = None

\* worksheet.delete_rows(1): the rows below move up by one.
delete_rows(ws) ==
    [ws EXCEPT !.rows = IF Len(@) = 0 THEN @ ELSE Tail(@)]

-----------------------------------------------------------------------------
(* get_grade *)

\* round(score, ndigits=1), from hundredths to tenths.  Exact halves are not
\* among the scores drawn: Python rounds them by their binary expansion.
round1(h) == (h + 5) \div 10

\* get_grade(score): "A".."F", or "None"
get_grade(s) ==
    IF s = None THEN "None"
    ELSE LET r == round1(s.h)
         IN  IF r >= 850 THEN "A"
             ELSE IF 700 <= r /\ r <= 840 THEN "B"
             ELSE IF 550 <= r /\ r <= 690 THEN "C"
             ELSE IF 500 <= r /\ r <= 540 THEN "D"
             ELSE IF 450 <= r /\ r <= 490 THEN "E"
             ELSE "F"

-----------------------------------------------------------------------------
(* get_broadsheet_schema *)

MIN_COL == 3
MAX_COL == 300
BATCH == 3

\* BroadSheetSchema(term=worksheet.title.strip().title(), subjects={}, ...)
NewSchema(ws) ==
    [term |-> Title(Strip(ws.title)),
     subjects |-> <<>>,
     aggregates |-> <<>>,
     teachers_comment |-> <<>>,
     coordinators_comment |-> <<>>]

\* previous_title as the loop over a batch sees it: reset to None when the
\* column opens a batch of itertools.batched(..., n=3).
BatchPrevious(prev, c) == IF (c - MIN_COL) % BATCH = 0 THEN None ELSE prev

Raised == [raised |-> TRUE]
Stepped(sch, prev, last) ==
    [raised |-> FALSE, schema |-> sch, previous_title |-> prev,
     last_column_index |-> last]

\* the test made with the header's own capital letter
IsCommentColumn_CaseSensitive(s) == Contains(s, H_Comment)

\* "comment" in sub_title, which skips the column
IsCommentColumn(s) == Contains(s, S_comment)

\* previous_title after a sub-column was recorded under title t
RecordedTitle(prev, t) == Str(t)

\* the column index taken one too far
SubColumn_OffByOne(sch, prev, last, t, sub_title, overall, c) ==
    IF ~Truthy(sub_title) THEN Stepped(sch, prev, last)
    ELSE IF sub_title.t # "str" THEN Raised
    ELSE LET s == _to_internal(sub_title.s)
             ref == [column |-> c + 1, overall |-> overall]
         IN  Stepped([sch EXCEPT !.subjects[t] = Put(@, s, ref)],
                     RecordedTitle(prev, t), Idx(c + 1))

\* Lines 164-171: the column is a sub-column of subject t.
SubColumn(sch, prev, last, t, sub_title, overall, c) ==
    IF ~Truthy(sub_title) THEN Stepped(sch, prev, last)
    ELSE IF sub_title.t # "str" THEN Raised
    ELSE LET s == _to_internal(sub_title.s)
             ref == [column |-> c, overall |-> overall]
         IN  Stepped([sch EXCEPT !.subjects[t] = Put(@, s, ref)],
                     RecordedTitle(prev, t), Idx(c))

\* line 159 left out: an aggregate does not move last_column_index
AggregateColumn_KeepsLast(sch, prev, last, sub_title, overall, c) ==
    IF ~Truthy(sub_title) THEN Stepped(sch, prev, last)
    ELSE IF sub_title.t # "str" THEN Raised
    ELSE LET s == _to_internal(sub_title.s)
             ref == [column |-> c, overall |-> overall]
         IN  IF IsCommentColumn(s) THEN Stepped(sch, prev, last)
             ELSE Stepped([sch EXCEPT !.aggregates = Put(@, s, ref)],
                          prev, last)

\* Lines 146-160: a column without title and without previous title.
AggregateColumn(sch, prev, last, sub_title, overall, c) ==
    IF ~Truthy(sub_title) THEN Stepped(sch, prev, last)
    ELSE IF sub_title.t # "str" THEN Raised
    ELSE LET s == _to_internal(sub_title.s)
             ref == [column |-> c, overall |-> overall]
         IN  IF IsCommentColumn(s) THEN Stepped(sch, prev, last)
             ELSE Stepped([sch EXCEPT !.aggregates = Put(@, s, ref)],
                          prev, Idx(c))

\* Lines 136-171: one pass of the inner loop, for column c.
ScanStep(sch, prev, last, title, sub_title, overall, c) ==
    IF Truthy(title)
    THEN IF title.t # "str" THEN Raised
         ELSE LET t == _to_internal(title.s)
                  sch1 == IF t \in DOMAIN sch.subjects THEN sch
                          ELSE [sch EXCEPT !.subjects = Put(@, t, <<>>)]
              IN  SubColumn(sch1, prev, last, t, sub_title, overall, c)
    ELSE IF ~Truthy(prev)
         THEN AggregateColumn(sch, prev, last, sub_title, overall, c)
         ELSE SubColumn(sch, prev, last, prev.s, sub_title, overall, c)

\* The step the scan takes at the current column.
CurrentStep ==
    ScanStep(schema, BatchPrevious(previous_title, col), last_column_index,
             CellValue(worksheet, 2, col), CellValue(worksheet, 3, col),
             CellValue(worksheet, 4, col), col)

\* Lines 173-176
CommentColumns(sch, last) ==
    IF last # None
    THEN [sch EXCEPT !.teachers_comment = Put(@, "column", last.n + 1),
                     !.coordinators_comment = Put(@, "column", last.n + 2)]
    ELSE sch

BeginSchema ==
    /\ pc = "schema"
    /\ schema' = NewSchema(worksheet)
    /\ last_column_index' = None
    /\ previous_title' = None
    /\ col' = MIN_COL
    /\ pc' = "scan"
    /\ UNCHANGED <<entry, sheets, idx, worksheet, row, results,
                   broadsheets_data, err, score, grade>>

ScanColumn ==
    /\ pc = "scan"
    /\ col <= MAX_COL
    /\ ~CurrentStep.raised
    /\ schema' = CurrentStep.schema
    /\ previous_title' = CurrentStep.previous_title
    /\ last_column_index' = CurrentStep.last_column_index
    /\ col' = col + 1
    /\ UNCHANGED <<entry, pc, sheets, idx, worksheet, row, results,
                   broadsheets_data, err, score, grade>>

\* _to_internal(val) calls val.strip(): a number has no such method.
ScanRaise ==
    /\ pc = "scan"
    /\ col <= MAX_COL
    /\ CurrentStep.raised
    /\ pc' = "error"
    /\ err' = "AttributeError"
    /\ UNCHANGED <<entry, sheets, idx, worksheet, schema, col, previous_title,
                   last_column_index, row, results, broadsheets_data, score,
                   grade>>

FinishSchema ==
    /\ pc = "scan"
    /\ col > MAX_COL
    /\ schema' = CommentColumns(schema, last_column_index)
    /\ IF entry = "get_broadsheet_schema"
       THEN pc' = "done" /\ UNCHANGED <<row, results>>
       ELSE pc' = "students" /\ row' = 5 /\ results' = <<>>
    /\ UNCHANGED <<entry, sheets, idx, worksheet, col, previous_title,
                   last_column_index, broadsheets_data, err, score, grade>>

-----------------------------------------------------------------------------
(* students, student_results *)

FIRST_STUDENT_ROW == 5
NAME_COL == 2

SubjectKeys == {S_mid_term_score, S_exam_score, S_total_score}

\* subject_schema["mid_term_score"]["column"] and its two siblings resolve
HasSubjectKeys(subject_schema) == SubjectKeys \subseteq DOMAIN subject_schema

\* teachers_comment_schema["column"] resolves
HasColumn(comment_schema) == "column" \in DOMAIN comment_schema

\* The exception student_results raises for the student in row r, or "none".
StudentError(ws, sch, r) ==
    IF CellValue(ws, r, NAME_COL).t # "str" THEN "AttributeError"
    ELSE IF \E k \in DOMAIN sch.subjects : ~HasSubjectKeys(sch.subjects[k])
    THEN "KeyError"
    ELSE IF \E k \in DOMAIN sch.subjects :
                CellValue(ws, r, sch.subjects[k][S_total_score].column).t = "str"
    THEN "TypeError"
    ELSE IF \E k \in DOMAIN sch.aggregates :
                Truthy(CellValue(ws, r, sch.aggregates[k].column))
                /\ CellValue(ws, r, sch.aggregates[k].column).t = "str"
    THEN "TypeError"
    ELSE IF ~HasColumn(sch.teachers_comment) THEN "KeyError"
    ELSE IF CellValue(ws, r, sch.teachers_comment.column).t = "num"
            /\ Truthy(CellValue(ws, r, sch.teachers_comment.column))
    THEN "AttributeError"
    ELSE IF ~HasColumn(sch.coordinators_comment) THEN "KeyError"
    ELSE IF CellValue(ws, r, sch.coordinators_comment.column).t = "num"
            /\ Truthy(CellValue(ws, r, sch.coordinators_comment.column))
    THEN "AttributeError"
    ELSE "none"

\* get_subjects_scores_for_student
get_subjects_scores_for_student(ws, r, subjects_schemas) ==
    [k \in DOMAIN subjects_schemas |->
        LET total_score == CellValue(ws, r, subjects_schemas[k][S_total_score].column)
        IN  [mid_term_score |->
                 CellValue(ws, r, subjects_schemas[k][S_mid_term_score].column),
             exam_score |->
                 CellValue(ws, r, subjects_schemas[k][S_exam_score].column),
             total_score |-> total_score,
             grade |-> get_grade(total_score)]]

\* get_aggregates_values: round(value, ndigits=1) if value else None
get_aggregates_values(ws, r, aggregates_schemas) ==
    [k \in DOMAIN aggregates_schemas |->
        LET v == CellValue(ws, r, aggregates_schemas[k].column)
        IN  IF Truthy(v) THEN Num(round1(v.h) * 10) ELSE None]

\* get_comment_value
get_comment_value(ws, r, c) ==
    LET comment == CellValue(ws, r, c)
    IN  IF ~Truthy(comment) THEN None ELSE Str(Strip(comment.s))

\* Lines 383-390, for the student in row r
StudentResult(ws, sch, r) ==
    [term |-> sch.term,
     student |-> Title(Strip(CellValue(ws, r, NAME_COL).s)),
     subjects |-> get_subjects_scores_for_student(ws, r, sch.subjects),
     aggregates |-> get_aggregates_values(ws, r, sch.aggregates),
     teachers_comment |-> get_comment_value(ws, r, sch.teachers_comment.column),
     coordinators_comment |->
         get_comment_value(ws, r, sch.coordinators_comment.column)]

\* students(): a row without a name is passed over
SkipStudent ==
    /\ pc = "students"
    /\ row <= max_row(worksheet)
    /\ ~Truthy(CellValue(worksheet, row, NAME_COL))
    /\ row' = row + 1
    /\ UNCHANGED <<entry, pc, sheets, idx, worksheet, schema, col,
                   previous_title, last_column_index, results,
                   broadsheets_data, err, score, grade>>

YieldStudent ==
    /\ pc = "students"
    /\ row <= max_row(worksheet)
    /\ Truthy(CellValue(worksheet, row, NAME_COL))
    /\ StudentError(worksheet, schema, row) = "none"
    /\ results' = Append(results, StudentResult(worksheet, schema, row))
    /\ row' = row + 1
    /\ UNCHANGED <<entry, pc, sheets, idx, worksheet, schema, col,
                   previous_title, last_column_index, broadsheets_data, err,
                   score, grade>>

StudentRaise ==
    /\ pc = "students"
    /\ row <= max_row(worksheet)
    /\ Truthy(CellValue(worksheet, row, NAME_COL))
    /\ StudentError(worksheet, schema, row) # "none"
    /\ pc' = "error"
    /\ err' = StudentError(worksheet, schema, row)
    /\ UNCHANGED <<entry, sheets, idx, worksheet, schema, col, previous_title,
                   last_column_index, row, results, broadsheets_data, score,
                   grade>>

\* student_results called on its own: the generator is exhausted
EndStudents ==
    /\ pc = "students"
    /\ entry = "student_results"
    /\ row > max_row(worksheet)
    /\ pc' = "done"
    /\ UNCHANGED <<entry, sheets, idx, worksheet, schema, col, previous_title,
                   last_column_index, row, results, broadsheets_data, err,
                   score, grade>>

-----------------------------------------------------------------------------
(* remove_empty_first_rows *)

ROW_IDX == 1

\* Lines 15-17: the loop test holds and the first row is fetched
ReadFirstRow ==
    /\ pc = "normalize"
    /\ ROW_IDX <= max_row(worksheet)
    /\ pc' = "first_row"
    /\ UNCHANGED <<entry, sheets, idx, worksheet, schema, col, previous_title,
                   last_column_index, row, results, broadsheets_data, err,
                   score, grade>>

\* Lines 18-20: the row holds no value and is deleted; back to the loop test
DeleteEmptyRow ==
    /\ pc = "first_row"
    /\ RowIsEmpty(worksheet, ROW_IDX)
    /\ worksheet' = delete_rows(worksheet)
    /\ pc' = "normalize"
    /\ UNCHANGED <<entry, sheets, idx, schema, col, previous_title,
                   last_column_index, row, results, broadsheets_data, err,
                   score, grade>>

\* Line 25, reached by the break of line 23 or by the loop test failing
StopNormalize ==
    /\ pc \in {"normalize", "first_row"}
    /\ IF pc = "normalize"
       THEN ~(ROW_IDX <= max_row(worksheet))
       ELSE ~RowIsEmpty(worksheet, ROW_IDX)
    /\ pc' = IF entry = "remove_empty_first_rows" THEN "done" ELSE "schema"
    /\ UNCHANGED <<entry, sheets, idx, worksheet, schema, col, previous_title,
                   last_column_index, row, results, broadsheets_data, err,
                   score, grade>>

-----------------------------------------------------------------------------
(* nonempty_worksheets, extract_broadsheets_data *)

MIN_ROWS == 5
MIN_COLUMNS == 3

\* Line 38, negated: the worksheet is yielded
PassesFilter(ws) == ~(max_row(ws) < MIN_ROWS \/ max_column(ws) < MIN_COLUMNS)

\* broadsheets_data.setdefault(term, ...): the first worksheet of a term stays
StoreData_KeepFirst(data, term, entry_data) ==
    IF term \in DOMAIN data THEN data ELSE Put(data, term, entry_data)

\* broadsheets_data[term] = BroadSheetData(...)
StoreData(data, term, entry_data) == Put(data, term, entry_data)

SkipSheet ==
    /\ pc = "next_sheet"
    /\ idx <= Len(sheets)
    /\ ~PassesFilter(sheets[idx])
    /\ idx' = idx + 1
    /\ UNCHANGED <<entry, pc, sheets, worksheet, schema, col, previous_title,
                   last_column_index, row, results, broadsheets_data, err,
                   score, grade>>

TakeSheet ==
    /\ pc = "next_sheet"
    /\ idx <= Len(sheets)
    /\ PassesFilter(sheets[idx])
    /\ worksheet' = sheets[idx]
    /\ pc' = "normalize"
    /\ UNCHANGED <<entry, sheets, idx, schema, col, previous_title,
                   last_column_index, row, results, broadsheets_data, err,
                   score, grade>>

\* Lines 424-428, then the generator moves on
StoreSheet ==
    /\ pc = "students"
    /\ entry = "extract_broadsheets_data"
    /\ row > max_row(worksheet)
    /\ broadsheets_data' =
           StoreData(broadsheets_data, schema.term,
                     [students_results |-> results, broadsheet_schema |-> schema])
    /\ idx' = idx + 1
    /\ pc' = "next_sheet"
    /\ UNCHANGED <<entry, sheets, worksheet, schema, col, previous_title,
                   last_column_index, row, results, err, score, grade>>

ReturnData ==
    /\ pc = "next_sheet"
    /\ idx > Len(sheets)
    /\ pc' = "done"
    /\ UNCHANGED <<entry, sheets, idx, worksheet, schema, col, previous_title,
                   last_column_index, row, results, broadsheets_data, err,
                   score, grade>>

-----------------------------------------------------------------------------
(* get_grade called on its own *)

CallGetGrade ==
    /\ pc = "grade"
    /\ grade' = get_grade(score)
    /\ pc' = "done"
    /\ UNCHANGED <<entry, sheets, idx, worksheet, schema, col, previous_title,
                   last_column_index, row, results, broadsheets_data, err,
                   score>>

-----------------------------------------------------------------------------
(* Inputs *)

NoSheet == [title |-> <<>>, rows |-> <<>>]
NoSchema == NewSchema(NoSheet)

\* The variables a call does not touch before its first step.
Untouched ==
    /\ idx = 1
    /\ schema = NoSchema
    /\ col = MIN_COL
    /\ previous_title = None
    /\ last_column_index = None
    /\ row = FIRST_STUDENT_ROW
    /\ results = <<>>
    /\ broadsheets_data = <<>>
    /\ err = "none"
    /\ grade = "unset"

(* Scores for get_grade, in hundredths *)
MaxBelowZero == 200
MaxScore == 10000
ScoreInputs ==
    {None} \cup {Num(h) : h \in {x \in (0 - MaxBelowZero)..MaxScore : x % 10 # 5}}

(* Worksheets for remove_empty_first_rows: up to MaxRows rows, each without  *)
(* cells, with empty cells only, or with a value; the last row holds a cell. *)
MaxRows == 4
RowInputs ==
    {<<>>, (1 :> None @@ 2 :> None), (1 :> Str(H_Name)), (1 :> None @@ 2 :> Num(100))}
NormInputs ==
    {[title |-> T_Term1, rows |-> r] :
        r \in {q \in UNION {[1..n -> RowInputs] : n \in 0..MaxRows} :
                  Len(q) = 0 \/ q[Len(q)] # <<>>}}

(* Worksheets for the header scan: three neighbouring header columns from   *)
(* column `base` on, then a row without a name and a row with a student.    *)
SubNames == <<H_Mid_sp, H_Exam, H_Total>>
Bases == {MIN_COL, MIN_COL + 1, MAX_COL - 2}
TitleInputs(k) == {None, Str(H_Math)} \cup (IF k = 1 THEN {Num(500)} ELSE {})
SubInputs(k) ==
    {None, Str(H_Comment), Str(SubNames[k])} \cup (IF k = 1 THEN {Num(700)} ELSE {})
Layouts ==
    {f \in [DOMAIN SubNames ->
              [title : {None, Str(H_Math), Num(500)},
               sub : {None, Str(H_Comment), Num(700)}
                     \cup {Str(SubNames[k]) : k \in DOMAIN SubNames}]] :
        \A k \in DOMAIN SubNames :
            f[k].title \in TitleInputs(k) /\ f[k].sub \in SubInputs(k)}

\* what a student's row holds under a header cell
StudentCell(sub) ==
    IF sub.t # "str" THEN None
    ELSE IF Contains(Lower(sub.s), S_comment) THEN Str(C_ok)
    ELSE Num(7500)

HeaderSheet(base, f) ==
    LET win == base..(base + Len(SubNames) - 1)
    IN  [title |-> T_Term1,
         rows |-> << (NAME_COL :> Str(H_Name)),
                     [c \in win |-> f[c - base + 1].title],
                     [c \in win |-> f[c - base + 1].sub],
                     [c \in win |-> IF Truthy(f[c - base + 1].sub)
                                    THEN Num(10000) ELSE None],
                     (NAME_COL :> None),
                     (NAME_COL :> Str(N_john_doe))
                         @@ [c \in win |-> StudentCell(f[c - base + 1].sub)] >>]

SheetInputs == {HeaderSheet(b, f) : b \in Bases, f \in Layouts}

(* Worksheets for the workbook *)
HeaderRows ==
    << (NAME_COL :> Str(H_Name)),
       (3 :> Str(H_Science)),
       (3 :> Str(H_Mid) @@ 4 :> Str(H_Exam) @@ 5 :> Str(H_Total) @@ 6 :> Str(H_Total)),
       (3 :> Num(10000) @@ 4 :> Num(10000) @@ 5 :> Num(10000)) >>
StudentRow(name, mid, exam, total, sum) ==
    (NAME_COL :> Str(name) @@ 3 :> Num(mid) @@ 4 :> Num(exam) @@ 5 :> Num(total)
        @@ 6 :> Num(sum))

\* "Term1", two blank rows, Science over columns 3-5, Total at column 6,
\* john doe in row 7 with 70, 80, 75, 150
EndToEndSheet ==
    [title |-> T_Term1,
     rows |-> << <<>>, (1 :> None) >> \o HeaderRows
              \o << StudentRow(N_john_doe, 7000, 8000, 7500, 15000) >>]
\* " term1 ", no blank row, two students around a row without a name
OtherTerm1Sheet ==
    [title |-> T_term1_sp,
     rows |-> HeaderRows \o << StudentRow(N_ada, 5000, 4000, 4490, 0),
                               (1 :> Num(200)),
                               StudentRow(N_john_doe, 9000, 8000, 8500, 17004) >>]
\* five rows of which one is blank and none is a student's
HeaderOnlySheet ==
    [title |-> T_Term2, rows |-> << (1 :> None) >> \o HeaderRows]
\* four rows
ShortSheet == [title |-> T_Term1, rows |-> HeaderRows]
\* two columns
NarrowSheet ==
    [title |-> T_Term2,
     rows |-> [r \in 1..6 |-> (1 :> Num(100 * r) @@ NAME_COL :> Str(N_ada))]]
\* a subject with one sub-column
BrokenSheet ==
    [title |-> T_Term2,
     rows |-> << (NAME_COL :> Str(H_Name)),
                 (3 :> Str(H_Math)),
                 (3 :> Str(H_Mid)),
                 <<>>,
                 (NAME_COL :> Str(N_ada) @@ 3 :> Num(5000)) >>]
\* a number as a header title
NumericSheet ==
    [title |-> T_Term2,
     rows |-> << (NAME_COL :> Str(H_Name)),
                 (3 :> Num(100)),
                 (3 :> Str(H_Mid)),
                 <<>>,
                 (NAME_COL :> Str(N_ada) @@ 3 :> Num(5000)) >>]
\* cells in five rows and three columns, none with a value
BlankSheet ==
    [title |-> T_Term2,
     rows |-> [r \in 1..5 |-> (1 :> None @@ 2 :> None @@ 3 :> None)]]

WorkbookSheets ==
    {EndToEndSheet, OtherTerm1Sheet, HeaderOnlySheet, ShortSheet, NarrowSheet,
     BrokenSheet, NumericSheet, BlankSheet}
MaxSheets == 2
Workbooks == UNION {[1..n -> WorkbookSheets] : n \in 0..MaxSheets}

-----------------------------------------------------------------------------
(* Specifications *)

\* extract_broadsheets_data(file)
Init ==
    /\ entry = "extract_broadsheets_data"
    /\ pc = "next_sheet"
    /\ sheets \in Workbooks
    /\ worksheet = NoSheet
    /\ score = None
    /\ Untouched

Next ==
    \/ SkipSheet
    \/ TakeSheet
    \/ ReadFirstRow
    \/ DeleteEmptyRow
    \/ StopNormalize
    \/ BeginSchema
    \/ ScanColumn
    \/ ScanRaise
    \/ FinishSchema
    \/ SkipStudent
    \/ YieldStudent
    \/ StudentRaise
    \/ StoreSheet
    \/ ReturnData

Spec == Init /\ [][Next]_vars

\* student_results(worksheet), the schema taken from the worksheet itself
InitSheet ==
    /\ entry = "student_results"
    /\ pc = "schema"
    /\ worksheet \in SheetInputs
    /\ sheets = <<worksheet>>
    /\ score = None
    /\ Untouched

NextSheet ==
    \/ BeginSchema
    \/ ScanColumn
    \/ ScanRaise
    \/ FinishSchema
    \/ SkipStudent
    \/ YieldStudent
    \/ StudentRaise
    \/ EndStudents

SpecSheet == InitSheet /\ [][NextSheet]_vars

\* remove_empty_first_rows(worksheet)
InitNorm ==
    /\ entry = "remove_empty_first_rows"
    /\ pc = "normalize"
    /\ worksheet \in NormInputs
    /\ sheets = <<worksheet>>
    /\ score = None
    /\ Untouched

NextNorm == ReadFirstRow \/ DeleteEmptyRow \/ StopNormalize

SpecNorm == InitNorm /\ [][NextNorm]_vars

\* The interpreter keeps running the loop: a step that can be taken is taken.
FairSpecNorm ==
    SpecNorm /\ WF_vars(ReadFirstRow) /\ WF_vars(DeleteEmptyRow) /\ WF_vars(StopNormalize)

\* get_grade(score)
InitGrade ==
    /\ entry = "get_grade"
    /\ pc = "grade"
    /\ score \in ScoreInputs
    /\ sheets = <<>>
    /\ worksheet = NoSheet
    /\ Untouched

NextGrade == CallGetGrade

SpecGrade == InitGrade /\ [][NextGrade]_vars

-----------------------------------------------------------------------------
(* Properties *)

N_John_Doe == <<"J", "o", "h", "n", " ", "D", "o", "e">>
K_science == <<"s", "c", "i", "e", "n", "c", "e">>
K_total == <<"t", "o", "t", "a", "l">>

\* get_broadsheet_schema has returned
SchemaReturned == col > MAX_COL /\ pc # "scan"

\* the columns the schema holds as a sub-column of a subject or as an aggregate
DataColumns(sch) ==
    UNION {{sch.subjects[k][n].column : n \in DOMAIN sch.subjects[k]} :
              k \in DOMAIN sch.subjects}
    \cup {sch.aggregates[a].column : a \in DOMAIN sch.aggregates}

\* the columns of the two comment schemas
CommentRefColumns(sch) ==
    {sch.teachers_comment[k] : k \in DOMAIN sch.teachers_comment}
    \cup {sch.coordinators_comment[k] : k \in DOMAIN sch.coordinators_comment}

\* the row-3 cell of column c holds text with "comment" in it, in any case
IsCommentHeader(ws, c) ==
    LET v == CellValue(ws, 3, c)
    IN  v.t = "str" /\ Contains(Lower(v.s), S_comment)

\* the boundary table, scores in hundredths
BoundaryTable ==
    8500 :> "A" @@ 8490 :> "B" @@ 7000 :> "B" @@ 6990 :> "C" @@ 5500 :> "C"
    @@ 5490 :> "D" @@ 5000 :> "D" @@ 4990 :> "E" @@ 4500 :> "E" @@ 4490 :> "F"
    @@ 0 :> "F"

(* C1: get_grade returns a grade for every score, and the scores of the     *)
(* boundary table get the grades listed: 85 -> A, 84.9 -> B, 70 -> B,       *)
(* 69.9 -> C, 55 -> C, 54.9 -> D, 50 -> D, 49.9 -> E, 45 -> E, 44.9 -> F,   *)
(* 0 -> F, None -> None.                                                    *)
C1_GradeBoundaries ==
    (entry = "get_grade" /\ pc = "done") =>
        /\ grade \in {"A", "B", "C", "D", "E", "F", "None"}
        /\ (grade = "None") <=> (score = None)
        /\ (score # None /\ score.h \in DOMAIN BoundaryTable)
               => grade = BoundaryTable[score.h]

(* C3: in the schema get_broadsheet_schema returns, the teachers' comment   *)
(* column is the last data column + 1 and the coordinators' the last data   *)
(* column + 2, the last data column being the greatest column the schema    *)
(* holds as sub-column or aggregate; with no data column both comment       *)
(* schemas are empty.                                                       *)
C3_CommentColumns ==
    SchemaReturned =>
        IF DataColumns(schema) = {}
        THEN /\ last_column_index = None
             /\ schema.teachers_comment = <<>>
             /\ schema.coordinators_comment = <<>>
        ELSE /\ last_column_index = Idx(Max(DataColumns(schema)))
             /\ schema.teachers_comment = [column |-> Max(DataColumns(schema)) + 1]
             /\ schema.coordinators_comment =
                    [column |-> Max(DataColumns(schema)) + 2]
C3_Witness ==
    /\ SchemaReturned
    /\ DOMAIN schema.aggregates # {}
    /\ DOMAIN schema.subjects # {}
    /\ schema.teachers_comment = [column |-> Max(DataColumns(schema)) + 1]

(* C4, as claimed: every column of the returned schema, the comment columns *)
(* included, lies within the scanned columns 3..300.                        *)
C4_AllColumnsInScannedRange ==
    SchemaReturned =>
        \A c \in DataColumns(schema) \cup CommentRefColumns(schema) :
            1 <= c /\ c <= MAX_COL
(* C4, amended: every sub-column and aggregate column of the returned       *)
(* schema lies within the scanned columns 3..300; the teachers' comment     *)
(* column lies within 4..301 and the coordinators' within 5..302.           *)
C4_DataColumnsInScannedRange ==
    SchemaReturned =>
        /\ \A c \in DataColumns(schema) : MIN_COL <= c /\ c <= MAX_COL
        /\ \A k \in DOMAIN schema.teachers_comment :
               MIN_COL + 1 <= schema.teachers_comment[k]
               /\ schema.teachers_comment[k] <= MAX_COL + 1
        /\ \A k \in DOMAIN schema.coordinators_comment :
               MIN_COL + 2 <= schema.coordinators_comment[k]
               /\ schema.coordinators_comment[k] <= MAX_COL + 2
C4_Witness ==
    /\ SchemaReturned
    /\ MAX_COL \in DataColumns(schema)
    /\ schema.coordinators_comment = [column |-> MAX_COL + 2]

(* C7: get_broadsheet_schema raises no exception, whatever the header cells *)
(* hold.                                                                    *)
C7_SchemaNeverRaises == ~(pc = "error" /\ col <= MAX_COL)

\* the rows students() yields
LocatedStudents(ws) ==
    {r \in FIRST_STUDENT_ROW..max_row(ws) : Truthy(CellValue(ws, r, NAME_COL))}

(* C8: student_results with the schema of the worksheet itself ends without *)
(* a lookup error and with one result per row that has a name.              *)
C8_ToleratesIncompleteSchema ==
    /\ err # "KeyError"
    /\ (entry = "student_results" /\ SchemaReturned /\ pc \in {"done", "error"})
           => /\ pc = "done"
              /\ Len(results) = Cardinality(LocatedStudents(worksheet))

(* C9: a step of the header scan at a column with a row-2 title leaves that *)
(* title, canonicalized, as the active title, also when the column's row-3  *)
(* sub-title is empty.                                                      *)
C9_TitleBecomesActive ==
    [][(/\ pc = "scan"
        /\ col <= MAX_COL
        /\ col' = col + 1
        /\ Truthy(CellValue(worksheet, 2, col)))
           => previous_title' = Str(_to_internal(CellValue(worksheet, 2, col).s))]_vars

\* the scan is at a comment column without title and without active title
UntitledCommentColumn ==
    /\ pc = "scan"
    /\ col <= MAX_COL
    /\ IsCommentHeader(worksheet, col)
    /\ ~Truthy(CellValue(worksheet, 2, col))
    /\ ~Truthy(BatchPrevious(previous_title, col))

(* C10, as claimed: no column whose row-3 sub-title contains "comment" is   *)
(* recorded as a data column or becomes the last data column.               *)
C10_CommentNeverRecorded ==
    /\ \A c \in DataColumns(schema) : ~IsCommentHeader(worksheet, c)
    /\ last_column_index # None => ~IsCommentHeader(worksheet, last_column_index.n)
(* C10, amended: no column whose row-3 sub-title contains "comment" is ever *)
(* an aggregate, and the scan of such a column that has no title and no     *)
(* active title changes neither the schema nor the last data column.        *)
C10_CommentNeverAggregate ==
    /\ [](\A a \in DOMAIN schema.aggregates :
              ~IsCommentHeader(worksheet, schema.aggregates[a].column))
    /\ [][UntitledCommentColumn
              => schema' = schema /\ last_column_index' = last_column_index]_vars
C10_Witness ==
    /\ pc = "scan"
    /\ col = MIN_COL + 2
    /\ IsCommentHeader(worksheet, MIN_COL + 1)
    /\ ~Truthy(CellValue(worksheet, 2, MIN_COL + 1))
    /\ last_column_index = None
    /\ DataColumns(schema) = {}

\* the rows without the longest prefix of rows that hold no value
HasValue(r) == \E c \in DOMAIN r : r[c] # None
RECURSIVE DropEmptyRows(_)
DropEmptyRows(rows) ==
    IF Len(rows) > 0 /\ ~HasValue(Head(rows)) THEN DropEmptyRows(Tail(rows)) ELSE rows

(* C6: remove_empty_first_rows returns for every worksheet, and when it     *)
(* returns the worksheet is the original without its longest prefix of rows *)
(* that hold no value, the other rows unchanged and in order.               *)
C6_NormalizerTerminates ==
    /\ <>(pc = "done")
    /\ [](pc = "done" => worksheet.rows = DropEmptyRows(sheets[1].rows))

(* The data extract_broadsheets_data is to hold for a worksheet that it     *)
(* processes to the end.                                                    *)
ScanOne(ws, st, c) ==
    ScanStep(st.schema, BatchPrevious(st.previous_title, c), st.last_column_index,
             CellValue(ws, 2, c), CellValue(ws, 3, c), CellValue(ws, 4, c), c)
\* the scan of columns lo..hi, by halves
RECURSIVE ScanRange(_, _, _, _)
ScanRange(ws, st, lo, hi) ==
    IF lo = hi THEN ScanOne(ws, st, lo)
    ELSE LET mid == (lo + hi) \div 2
             left == ScanRange(ws, st, lo, mid)
         IN  IF left.raised THEN left ELSE ScanRange(ws, left, mid + 1, hi)
SchemaOf(ws) ==
    LET st == ScanRange(ws, Stepped(NewSchema(ws), None, None), MIN_COL, MAX_COL)
    IN  CommentColumns(st.schema, st.last_column_index)
RECURSIVE ResultsFrom(_, _, _)
ResultsFrom(ws, sch, r) ==
    IF r > max_row(ws) THEN <<>>
    ELSE IF Truthy(CellValue(ws, r, NAME_COL))
         THEN <<StudentResult(ws, sch, r)>> \o ResultsFrom(ws, sch, r + 1)
         ELSE ResultsFrom(ws, sch, r + 1)
DataOf(ws) ==
    LET n == [ws EXCEPT !.rows = DropEmptyRows(@)]
    IN  [students_results |-> ResultsFrom(n, SchemaOf(n), FIRST_STUDENT_ROW),
         broadsheet_schema |-> SchemaOf(n)]

\* the positions of the worksheets with at least 5 rows and 3 columns
Sized ==
    {i \in 1..Len(sheets) :
        max_row(sheets[i]) >= MIN_ROWS /\ max_column(sheets[i]) >= MIN_COLUMNS}
TermOf(ws) == Title(Strip(ws.title))

\* the run on the end-to-end worksheet alone, and what the claim and its
\* amendment share
EndToEndDone == pc = "done" /\ sheets = <<EndToEndSheet>>
EndToEndResult == broadsheets_data[T_Term1].students_results[1]
EndToEndCommon ==
    /\ CellValue(worksheet, FIRST_STUDENT_ROW, NAME_COL) = Str(N_john_doe)
    /\ DOMAIN broadsheets_data = {T_Term1}
    /\ Len(broadsheets_data[T_Term1].students_results) = 1
    /\ EndToEndResult.term = T_Term1
    /\ EndToEndResult.student = N_John_Doe
    /\ K_science \in DOMAIN EndToEndResult.subjects
    /\ EndToEndResult.subjects[K_science].total_score = Num(7500)
    /\ EndToEndResult.subjects[K_science].grade = "B"

(* C2, as claimed: for the worksheet "Term1" with two blank rows, Science   *)
(* over columns 3-5, Total at column 6 and john doe in row 7 with 70, 80,   *)
(* 75, 150, the student ends up in row 5 and the result has term "Term1",   *)
(* student "John Doe", subjects["science"].total_score 75, grade B and      *)
(* aggregates["total"] 150.0.                                               *)
C2_EndToEndTotal ==
    EndToEndDone =>
        /\ EndToEndCommon
        /\ K_total \in DOMAIN EndToEndResult.aggregates
        /\ EndToEndResult.aggregates[K_total] = Num(15000)
(* C2, amended: the same, but the aggregate is held under the canonical     *)
(* name of "Total": aggregates["total_score"] is 150.0, and there is no     *)
(* aggregates["total"].                                                     *)
C2_EndToEndTotalScore ==
    EndToEndDone =>
        /\ EndToEndCommon
        /\ DOMAIN EndToEndResult.aggregates = {S_total_score}
        /\ EndToEndResult.aggregates[S_total_score] = Num(15000)
C2_Witness ==
    /\ EndToEndDone
    /\ Len(worksheet.rows) = FIRST_STUDENT_ROW
    /\ S_total_score \in DOMAIN EndToEndResult.aggregates

(* C5: when extract_broadsheets_data returns, the mapping has one entry for *)
(* each term (title, trimmed and title-cased) of a worksheet with at least  *)
(* 5 rows and 3 columns, and the entry is the data of the last such         *)
(* worksheet of that term; smaller worksheets add and change nothing.       *)
C5_LastWorksheetWins ==
    (entry = "extract_broadsheets_data" /\ pc = "done") =>
        /\ DOMAIN broadsheets_data = {TermOf(sheets[i]) : i \in Sized}
        /\ \A i \in Sized :
               (\A j \in Sized : j > i => TermOf(sheets[j]) # TermOf(sheets[i]))
                   => broadsheets_data[TermOf(sheets[i])] = DataOf(sheets[i])
C5_Witness ==
    /\ pc = "done"
    /\ sheets = <<EndToEndSheet, OtherTerm1Sheet>>
    /\ DOMAIN broadsheets_data = {T_Term1}
    /\ Len(broadsheets_data[T_Term1].students_results) = 2

=============================================================================
